---- MODULE Spec2Model ----
(***************************************************************************)
(* Knowledge-base search engine (backend/): a model of the document       *)
(* processor (document_processor.py), the RAG engine (rag_engine.py), the  *)
(* vector store (vector_store.py) and the HTTP handlers (main.py).         *)
(*                                                                         *)
(* Three specifications share the module's variables; each leaves the      *)
(* variables of the other components at their idle values:                 *)
(*   SpecDP   one DocumentProcessor.process_document call                  *)
(*   SpecRAG  calls on a RAGEngine                                         *)
(*   SpecAPI  requests served by main.py against the vector store          *)
(*                                                                         *)
(* Text is represented by the pieces the tokenizer splits it into. A piece *)
(* is [ws, body]: ws whitespace characters followed by body characters    *)
(* that are not whitespace. Scores are hundredths (90 stands for 0.9).     *)
(***************************************************************************)
EXTENDS Integers, Sequences, FiniteSets, TLC

VARIABLES
    \* ---- DocumentProcessor ----
    ctor_args,       \* the arguments DocumentProcessor(...) was constructed with
    faults,          \* the steps of _extract_metadata that raise on this file
    chunk_size,      \* self.chunk_size
    chunk_overlap,   \* self.chunk_overlap
    file_ext,        \* os.path.splitext(file_path)[1], as given
    file_text,       \* the text the file holds (what the extractor returns)
    dp_pc,           \* position in process_document
    dp_result,       \* what process_document returned or raised
    dp_steps,        \* the steps process_document has performed so far
    metadata,        \* the record _extract_metadata returned
    tokens,          \* self.encoding.encode(text)
    start,           \* the loop variable of _split_into_chunks
    chunks,          \* the list _split_into_chunks builds
    windows,         \* every window the loop has visited, in order
    iter,            \* the number of loop iterations performed
    \* ---- RAGEngine ----
    rag_query,       \* the query of the call: the set of its terms
    rag_docs,        \* the caller's list of results, each [content, score]
    rag_docs0,       \* that list as it was before the call
    rag_pc,          \* idle, returned or raised
    rag_call,        \* the method called
    rag_result,      \* the list the call returned, or the exception's name
    rag_answer,      \* the answer text of the call: its kind and its count of . ! ?
    rag_conf,        \* the float the call returned, in hundredths
    rag_steps,       \* the steps the call has performed so far, in order
    rag_prompt,      \* the query _create_prompt was given: none, original or expanded
    rag_response,    \* the text of the evaluator's response, as tokens
    \* ---- main.py and VectorStore ----
    startup,         \* startup_event: not_run, ok or failed
    is_initialized,  \* vector_store.is_initialized
    index,           \* the chunks the Chroma collection holds
    disk,            \* the files under uploads/, by name
    req,             \* the requests, by id: each handler's position and locals
    vs               \* the last direct call on the VectorStore: its arguments, its
                     \* outcome, the collection operations it issued, the state before it

dpVars == <<ctor_args, faults, chunk_size, chunk_overlap, file_ext, file_text, dp_pc, dp_result,
            dp_steps, metadata, tokens, start, chunks, windows, iter>>

ragVars == <<rag_query, rag_docs, rag_docs0, rag_pc, rag_call, rag_result,
             rag_answer, rag_conf, rag_steps, rag_prompt, rag_response>>

apiVars == <<startup, is_initialized, index, disk, req, vs>>

vars == <<dpVars, ragVars, apiVars>>

----------------------------------------------------------------------------
(* Bounds of the model *)

MaxTokens == 5        \* pieces in a .txt file's text
MaxChunkArg == 2      \* largest chunk_size argument
MaxOverlapArg == 3    \* largest chunk_overlap argument
MaxDocs == 3          \* results handed to a RAGEngine call
MaxFiles == 2         \* files in one /upload request
MaxPunct == 6         \* sentence marks (. ! ?) in an answer text
MaxIter == MaxTokens + 2   \* loop iterations modelled; a run that ends visits
                           \* at most Len(tokens) windows

(* Program constants *)

DefaultChunkSize == 1000
DefaultChunkOverlap == 200
MinChunkChars == 50
MinSimilarityThreshold == 30   \* MIN_SIMILARITY_THRESHOLD, default 0.3
DefaultMaxResults == 2         \* QueryRequest.max_results

----------------------------------------------------------------------------
(* Helpers *)

Min(a, b) == IF a < b THEN a ELSE b
Max(a, b) == IF a > b THEN a ELSE b

\* A constructor argument: omitted (None) or an integer.
ArgNone == [given |-> FALSE, val |-> 0]
Arg(n) == [given |-> TRUE, val |-> n]

\* Python's `a or d` on an optional integer: None and 0 are both falsy.
PyOr(a, d) == IF a.given /\ a.val # 0 THEN a.val ELSE d

\* Python's s[a:b] on a list, a and b 0-based and possibly negative.
PyIndex(i, n) == IF i < 0 THEN Max(i + n, 0) ELSE Min(i, n)
PySlice(s, a, b) ==
    LET lo == PyIndex(a, Len(s))
        hi == PyIndex(b, Len(s))
    IN  IF lo >= hi THEN <<>> ELSE SubSeq(s, lo + 1, hi)

----------------------------------------------------------------------------
(* Text *)

WS == [ws |-> 2, body |-> 0, keep |-> TRUE]      \* a run of two whitespace characters
Junk == [ws |-> 1, body |-> 3, keep |-> FALSE]   \* " " and three characters _clean_text removes
Short == [ws |-> 1, body |-> 5, keep |-> TRUE]   \* " " and a 5-character word
Long == [ws |-> 1, body |-> 50, keep |-> TRUE]   \* " " and a 50-character word
Pieces == {WS, Junk, Short, Long}

RECURSIVE SeqsUpTo(_, _)
SeqsUpTo(S, n) ==
    IF n = 0 THEN {<<>>}
    ELSE LET shorter == SeqsUpTo(S, n - 1)
         IN  shorter \cup {Append(s, x) : s \in {t \in shorter : Len(t) = n - 1}, x \in S}

Texts == SeqsUpTo(Pieces, MaxTokens)
ShortTexts == SeqsUpTo(Pieces, 1)

RECURSIVE TotalLen(_)
TotalLen(t) == IF t = <<>> THEN 0 ELSE Head(t).ws + Head(t).body + TotalLen(Tail(t))

RECURSIVE LeadWs(_)
LeadWs(t) ==
    IF t = <<>> THEN 0
    ELSE IF Head(t).body = 0 THEN Head(t).ws + LeadWs(Tail(t))
    ELSE Head(t).ws

RECURSIVE TrailWs(_)
TrailWs(t) ==
    IF t = <<>> THEN 0
    ELSE IF t[Len(t)].body = 0 THEN t[Len(t)].ws + TrailWs(SubSeq(t, 1, Len(t) - 1))
    ELSE 0

\* not text.strip()
IsBlank(t) == \A i \in 1..Len(t) : t[i].body = 0

\* len(text.strip())
StrippedLen(t) == IF IsBlank(t) THEN 0 ELSE TotalLen(t) - LeadWs(t) - TrailWs(t)

\* len(text.split())
WordCount(t) == Cardinality({i \in 1..Len(t) : t[i].body > 0})

\* re.sub(r'\s+', ' ', text): every run of whitespace becomes one space, kept in
\* front of the piece that follows it.
RECURSIVE CollapseWs(_, _)
CollapseWs(t, pending) ==
    IF t = <<>> THEN (IF pending THEN <<[ws |-> 1, body |-> 0, keep |-> TRUE]>> ELSE <<>>)
    ELSE IF Head(t).body = 0 THEN CollapseWs(Tail(t), TRUE)
    ELSE <<[Head(t) EXCEPT !.ws = IF pending \/ Head(t).ws > 0 THEN 1 ELSE 0]>>
         \o CollapseWs(Tail(t), FALSE)

\* re.sub(r'[^\w\s\.\,\!\?\;\:\-\(\)]', '', text): the special characters go, the
\* whitespace in front of them stays (it is not collapsed again).
RECURSIVE RemoveSpecial(_)
RemoveSpecial(t) ==
    IF t = <<>> THEN <<>>
    ELSE IF Head(t).keep THEN <<Head(t)>> \o RemoveSpecial(Tail(t))
    ELSE IF Head(t).ws > 0
         THEN <<[ws |-> Head(t).ws, body |-> 0, keep |-> TRUE]>> \o RemoveSpecial(Tail(t))
    ELSE RemoveSpecial(Tail(t))

\* text.strip()
RECURSIVE StripLeft(_)
StripLeft(t) ==
    IF t = <<>> THEN <<>>
    ELSE IF Head(t).body = 0 THEN StripLeft(Tail(t))
    ELSE <<[Head(t) EXCEPT !.ws = 0]>> \o Tail(t)

RECURSIVE StripRight(_)
StripRight(t) ==
    IF t = <<>> THEN <<>>
    ELSE IF t[Len(t)].body = 0 THEN StripRight(SubSeq(t, 1, Len(t) - 1))
    ELSE t

Strip(t) == StripRight(StripLeft(t))

\* _clean_text. The pieces hold no repeated punctuation, so the third
\* substitution changes nothing.
CleanText(t) == Strip(RemoveSpecial(CollapseWs(t, FALSE)))

\* self.encoding.encode(text): the pieces of the text, in order.
Encode(t) == t

----------------------------------------------------------------------------
(* DocumentProcessor *)

Exts == {".txt", ".PDF", ".docx", ".xyz"}

\* str.lower() on an extension
Lower(e) == CASE e = ".PDF" -> ".pdf" [] e = ".TXT" -> ".txt" [] OTHER -> e

\* Extractor with the else branch falling back to the text reader
Extractor_Fallback(ext) ==
    CASE ext = ".pdf" -> "_extract_pdf_text"
      [] ext = ".docx" -> "_extract_docx_text"
      [] OTHER -> "_extract_txt_text"

\* process_document's dispatch on the lower-cased extension
Extractor(ext) ==
    CASE ext = ".pdf" -> "_extract_pdf_text"
      [] ext = ".docx" -> "_extract_docx_text"
      [] ext = ".txt" -> "_extract_txt_text"
      [] OTHER -> "unsupported"

\* __init__
InitChunkSize(arg) == PyOr(arg, DefaultChunkSize)
InitChunkOverlap(arg) == PyOr(arg, DefaultChunkOverlap)

\* The steps of _extract_metadata that fail in one run: none, or one of os.stat,
\* the read for the hash, _detect_language and the regular expressions of
\* _extract_content_metadata
MetadataFailures == {{}, {"stat"}, {"hash"}, {"language"}, {"content"}}

\* _calculate_file_hash: the digest, or "unknown" when the read fails
CalculateFileHash(failed) == IF "hash" \in failed THEN "unknown" ELSE "sha256"

\* _extract_content_metadata: topics, dates, emails and the two flags, or {}
\* when a step of it raises
HasContentMetadata(failed) == "content" \notin failed

\* _extract_metadata: the record of lines 112-127, or the minimal one of lines
\* 133-138 when os.stat or the building of the record raises. failed records
\* the run; the code keeps it in no field.
ExtractMetadata(text, failed) ==
    IF failed \cap {"stat", "language"} = {}
    THEN [kind |-> "full", text_length |-> TotalLen(text), word_count |-> WordCount(text),
          file_hash |-> CalculateFileHash(failed), content |-> HasContentMetadata(failed),
          error |-> FALSE, failed |-> failed]
    ELSE [kind |-> "minimal", text_length |-> 0, word_count |-> 0,
          file_hash |-> "absent", content |-> FALSE, error |-> TRUE, failed |-> failed]

NoMetadata ==
    [kind |-> "none", text_length |-> 0, word_count |-> 0, file_hash |-> "absent",
     content |-> FALSE, error |-> FALSE, failed |-> {}]

\* Variants of the loop body's parts, each off by one
KeepChunk_AtLeast(chunk_tokens) == StrippedLen(chunk_tokens) >= MinChunkChars
NextStart_OffByOne(e, ov) == e - ov + 1
StopLoop_Early(s, n, ov) == s >= n - ov - 1

\* _split_into_chunks, the loop body's parts
WindowEnd(s, cs, n) == Min(s + cs, n)
KeepChunk(chunk_tokens) == StrippedLen(chunk_tokens) > MinChunkChars
ChunkIndex(cks) == Len(cks)
NextStart(e, ov) == e - ov
StopLoop(s, n, ov) == s >= n - ov

\* One iteration of the while loop on the loop state st = [start, chunks,
\* windows, iter, stop]; windows and iter record the run, the code keeps neither.
WhileBody(toks, cs, ov, st) ==
    LET end == WindowEnd(st.start, cs, Len(toks))
        chunk_tokens == PySlice(toks, st.start, end)
        keep == KeepChunk(chunk_tokens)
        chunk == [chunk_index |-> ChunkIndex(st.chunks),
                  start_token |-> st.start,
                  end_token |-> end,
                  content_len |-> StrippedLen(chunk_tokens),
                  chunk_length |-> TotalLen(chunk_tokens),
                  window |-> st.iter + 1]
        s2 == NextStart(end, ov)
    IN  [start |-> s2,
         chunks |-> IF keep THEN Append(st.chunks, chunk) ELSE st.chunks,
         windows |-> Append(st.windows, [start |-> st.start, end |-> end, emitted |-> keep]),
         iter |-> st.iter + 1,
         stop |-> StopLoop(s2, Len(toks), ov)]

LoopState == [start |-> start, chunks |-> chunks, windows |-> windows, iter |-> iter, stop |-> FALSE]

\* main.py's state before any request, and before startup_event has run
ReqIds == {"r1", "r2"}
FileNames == {"a.txt", "b.PDF", "c.xyz"}

\* A name under uploads/ with no file
Absent == [exists |-> FALSE, text |-> <<>>, corrupt |-> FALSE]

\* A request slot no handler has been entered for. wrote, chunked, added and
\* removed record the positions of the files the handler has performed that step
\* for; read_foreign the positions at which process_document found under
\* uploads/ something else than the bytes this request uploaded; raised_http is
\* the status_code of an HTTPException raised in the try body (0: none); the
\* code keeps none of these.
IdleReq ==
    [kind |-> "none", pc |-> "idle", files |-> <<>>, i |-> 0,
     processed_files |-> <<>>, total_chunks |-> 0, fd_linked |-> FALSE,
     status |-> 0, detail |-> "", raised_http |-> 0,
     wrote |-> {}, chunked |-> {}, added |-> {}, removed |-> {}, read_foreign |-> {},
     sources |-> <<>>, answer |-> "", llm_calls |-> 0]

\* No predicate handed to collection.query, and the argument filters=None
NoWhere == [kind |-> "unset", clause |-> <<>>]
NoFilters == [given |-> FALSE, keys |-> {}]

\* No direct call made on the VectorStore yet
NoCall ==
    [call |-> "none", source |-> "", chunks |-> <<>>, metadatas |-> <<>>,
     filters |-> NoFilters, where |-> NoWhere, hits |-> <<>>, results |-> <<>>,
     exc |-> "", ret_bool |-> FALSE, ret_list |-> {},
     ret_count |-> 0, ops |-> <<>>, index0 |-> {}, init0 |-> FALSE, n |-> 0]

ApiIdle ==
    /\ startup = "not_run"
    /\ is_initialized = FALSE
    /\ index = {}
    /\ disk = [n \in FileNames |-> Absent]
    /\ req = [r \in ReqIds |-> IdleReq]
    /\ vs = NoCall

\* No answer text yet
NoAnswer == [kind |-> "none", punct |-> 0]

RagIdle ==
    /\ rag_query = {}
    /\ rag_docs = <<>>
    /\ rag_docs0 = <<>>
    /\ rag_pc = "idle"
    /\ rag_call = "none"
    /\ rag_result = <<>>
    /\ rag_answer = NoAnswer
    /\ rag_conf = 0
    /\ rag_steps = <<>>
    /\ rag_prompt = "none"
    /\ rag_response = <<>>

DPIdle ==
    /\ chunk_size = DefaultChunkSize
    /\ chunk_overlap = DefaultChunkOverlap
    /\ ctor_args = [chunk_size |-> ArgNone, chunk_overlap |-> ArgNone]
    /\ faults = {}
    /\ file_ext = ".txt"
    /\ file_text = <<>>
    /\ dp_pc = "idle"
    /\ dp_result = "none"
    /\ dp_steps = {}
    /\ metadata = NoMetadata
    /\ tokens = <<>>
    /\ start = 0
    /\ chunks = <<>>
    /\ windows = <<>>
    /\ iter = 0

\* The argument pairs DocumentProcessor(chunk_size=..., chunk_overlap=...) is
\* constructed with: each omitted, or an explicit number from least up
CtorArgs(least) ==
    [chunk_size : {ArgNone} \cup {Arg(n) : n \in least..MaxChunkArg},
     chunk_overlap : {ArgNone} \cup {Arg(n) : n \in least..MaxOverlapArg}]

\* A processor constructed with one of args, about to process a file whose text
\* is one of texts when it is a .txt file, and on which the steps of one of
\* failures raise during metadata extraction
Constructed(args, texts, failures) ==
    /\ RagIdle
    /\ ApiIdle
    /\ ctor_args \in args
    /\ faults \in failures
    /\ chunk_size = InitChunkSize(ctor_args.chunk_size)
    /\ chunk_overlap = InitChunkOverlap(ctor_args.chunk_overlap)
    /\ file_ext \in Exts
    /\ file_text \in (IF file_ext = ".txt" THEN texts ELSE ShortTexts)
    /\ dp_pc = "start"
    /\ dp_result = "none"
    /\ dp_steps = {}
    /\ metadata = NoMetadata
    /\ tokens = <<>>
    /\ start = 0
    /\ chunks = <<>>
    /\ windows = <<>>
    /\ iter = 0

\* Every text, with each argument omitted or a positive number, on a file whose
\* metadata can be read. An explicit 0 gives the chunk_size / chunk_overlap of
\* an omitted argument (InitChunkSize, InitChunkOverlap); SpecDPEnv explores
\* it, and the failures of metadata extraction.
InitDP == Constructed(CtorArgs(1), Texts, {{}})

\* Texts of words alone, long enough for two windows of the largest chunk_size
EnvTexts == SeqsUpTo({Short, Long}, MaxChunkArg + 1)

\* The constructor's arguments in full, 0 included, and every failure of
\* metadata extraction
InitDPEnv == Constructed(CtorArgs(0), EnvTexts, MetadataFailures)

\* process_document, lines 24-34: dispatch on the extension and extract the text
\* (an extractor may raise ValueError, which process_document re-raises).
ProcessDocument_Extract ==
    /\ dp_pc = "start"
    /\ IF Extractor(Lower(file_ext)) = "unsupported"
       THEN /\ dp_pc' = "raised"
            /\ dp_result' = "ValueError: Unsupported file type"
            /\ dp_steps' = dp_steps
       ELSE \E readable \in BOOLEAN :
            /\ dp_steps' = dp_steps \cup {"extract_text"}
            /\ IF readable
               THEN dp_pc' = "extracted" /\ dp_result' = dp_result
               ELSE dp_pc' = "raised" /\ dp_result' = "ValueError: Error reading file"
    /\ UNCHANGED <<ctor_args, faults, chunk_size, chunk_overlap, file_ext, file_text, metadata, tokens,
                   start, chunks, windows, iter>>
    /\ UNCHANGED <<ragVars, apiVars>>

\* process_document, lines 36-47, and _split_into_chunks up to the loop: a blank
\* text returns []; otherwise clean, extract metadata, tokenize.
ProcessDocument_Prepare ==
    /\ dp_pc = "extracted"
    /\ IF IsBlank(file_text)
       THEN /\ dp_pc' = "returned"
            /\ dp_result' = "chunks"
            /\ UNCHANGED <<dp_steps, metadata, tokens>>
       ELSE /\ dp_pc' = "chunking"
            /\ dp_result' = dp_result
            /\ dp_steps' = dp_steps \cup {"clean_text", "extract_metadata", "split_into_chunks"}
            /\ metadata' = ExtractMetadata(CleanText(file_text), faults)
            /\ tokens' = Encode(CleanText(file_text))
    /\ UNCHANGED <<ctor_args, faults, chunk_size, chunk_overlap, file_ext, file_text, start, chunks, windows, iter>>
    /\ UNCHANGED <<ragVars, apiVars>>

\* _split_into_chunks, lines 190-219: one iteration of the loop, its break included.
SplitLoop ==
    /\ dp_pc = "chunking"
    /\ start < Len(tokens)
    /\ iter < MaxIter
    /\ LET st == WhileBody(tokens, chunk_size, chunk_overlap, LoopState)
       IN  /\ start' = st.start
           /\ chunks' = st.chunks
           /\ windows' = st.windows
           /\ iter' = st.iter
           /\ IF st.stop
              THEN dp_pc' = "returned" /\ dp_result' = "chunks"
              ELSE dp_pc' = dp_pc /\ dp_result' = dp_result
    /\ UNCHANGED <<ctor_args, faults, chunk_size, chunk_overlap, file_ext, file_text, dp_steps, metadata, tokens>>
    /\ UNCHANGED <<ragVars, apiVars>>

\* _split_into_chunks, line 190 false and line 221: the loop condition fails.
SplitReturn ==
    /\ dp_pc = "chunking"
    /\ ~(start < Len(tokens))
    /\ dp_pc' = "returned"
    /\ dp_result' = "chunks"
    /\ UNCHANGED <<ctor_args, faults, chunk_size, chunk_overlap, file_ext, file_text, dp_steps, metadata, tokens,
                   start, chunks, windows, iter>>
    /\ UNCHANGED <<ragVars, apiVars>>

NextDP ==
    \/ ProcessDocument_Extract
    \/ ProcessDocument_Prepare
    \/ SplitLoop
    \/ SplitReturn

SpecDP == InitDP /\ [][NextDP]_vars

SpecDPEnv == InitDPEnv /\ [][NextDP]_vars

----------------------------------------------------------------------------
(* RAGEngine *)

Scores == {-50, 20, 30, 50, 90}   \* 1 - cosine distance lies in [-1, 1]
Contents == {{"machine"}, {"machine", "learning"}}   \* a content, as the set of its words
Queries == {{"machine"}, {"learning", "algorithms"}}
Docs == [content : Contents, score : Scores]

\* Result lists of five and of six results: more than MaxDocs, to reach the end
\* of the positional weights
ResultList(scores) == [i \in 1..Len(scores) |-> [content |-> {"machine"}, score |-> scores[i]]]
LongResultLists ==
    { ResultList(<<90, 90, 50, 50, 30>>),
      ResultList(<<90, 90, 50, 50, 30, 20>>),
      ResultList(<<90, 90, 50, 50, 30, 90>>),
      ResultList(<<30, 50, 50, 90, 90, -50>>) }

\* The methods class RAGEngine defines (rag_engine.py has no other def).
RAGEngineMethods ==
    {"__init__", "generate_answer", "_prepare_context", "_create_prompt",
     "_filter_by_similarity", "_calculate_confidence", "_expand_query",
     "generate_summary", "extract_keywords", "evaluate_synthesis_quality"}

\* Python's attribute lookup of a method on a RAGEngine instance
GetAttr(name) == IF name \in RAGEngineMethods THEN "method" ELSE "AttributeError"

\* The test of _filter_by_similarity with > in place of >=
PassesThreshold_Strict(doc) == doc.score > MinSimilarityThreshold

\* doc["score"] >= self.min_similarity_threshold
PassesThreshold(doc) == doc.score >= MinSimilarityThreshold

\* _filter_by_similarity: [doc for doc in relevant_docs if ...]
RECURSIVE FilterBySimilarity(_)
FilterBySimilarity(docs) ==
    IF docs = <<>> THEN <<>>
    ELSE IF PassesThreshold(Head(docs))
         THEN <<Head(docs)>> \o FilterBySimilarity(Tail(docs))
         ELSE FilterBySimilarity(Tail(docs))

\* The positional weights of _calculate_confidence, in tenths
Weights == <<10, 8, 6, 4, 2>>

\* The divisor taken over all five weights, whatever the number of results
WeightSum_Untruncated(docs) == 30

\* sum(f[1..n])
RECURSIVE SumTo(_, _)
SumTo(f, n) == IF n = 0 THEN 0 ELSE f[n] + SumTo(f, n - 1)

\* The weighted sum computed from distances (1 - score) in place of scores
WeightedSum_Distance(docs) ==
    LET n == Min(Len(docs), Len(Weights))
    IN  SumTo([i \in 1..n |-> (100 - docs[i].score) * Weights[i]], n)

\* sum(s * w for s, w in zip(scores, weights)), in thousandths
WeightedSum(docs) ==
    LET n == Min(Len(docs), Len(Weights))
    IN  SumTo([i \in 1..n |-> docs[i].score * Weights[i]], n)

\* sum(weights), weights = [1.0, 0.8, 0.6, 0.4, 0.2][: len(scores)], in tenths
WeightSum(docs) == SumTo(Weights, Min(Len(docs), Len(Weights)))

\* coherence_score = min(k / 5, 1.0) for an answer with k marks, in hundredths
Coherence(k) == Min(k * 20, 100)

\* round(num / den, 2) on hundredths: the nearest integers to num / den. A
\* decimal tie is not a tie of the binary float; either neighbour may result.
RoundSet(num, den) ==
    LET q == num \div den
        r == num % den
    IN  IF 2 * r < den THEN {q}
        ELSE IF 2 * r > den THEN {q + 1}
        ELSE {q, q + 1}

\* _calculate_confidence(relevant_docs, answer): the values it may return, in
\* hundredths. weighted_score * 0.7 + coherence_score * 0.3 is
\* (7 * N + 3 * D * C) / (10 * D) hundredths, N the weighted sum, D the weight sum.
CalculateConfidence(docs, k) ==
    IF docs = <<>> THEN {0}
    ELSE LET num == 7 * WeightedSum(docs) + 3 * WeightSum(docs) * Coherence(k)
             den == 10 * WeightSum(docs)
         IN  IF num >= 100 * den THEN {100} ELSE RoundSet(num, den)

InitRAG ==
    /\ DPIdle
    /\ ApiIdle
    /\ rag_query \in Queries
    /\ rag_docs \in SeqsUpTo(Docs, MaxDocs) \cup LongResultLists
    /\ rag_docs0 = rag_docs
    /\ rag_pc = "idle"
    /\ rag_call = "none"
    /\ rag_result = <<>>
    /\ rag_answer = NoAnswer
    /\ rag_conf = 0
    /\ rag_steps = <<>>
    /\ rag_prompt = "none"
    /\ rag_response = <<>>

\* rag_engine._filter_by_similarity(docs)
Call_filter_by_similarity ==
    /\ rag_pc = "idle"
    /\ rag_call' = "_filter_by_similarity"
    /\ rag_result' = FilterBySimilarity(rag_docs)
    /\ rag_pc' = "returned"
    /\ UNCHANGED <<rag_query, rag_docs, rag_docs0, rag_answer, rag_conf, rag_steps, rag_prompt, rag_response>>
    /\ UNCHANGED <<dpVars, apiVars>>

\* rag_engine._rerank_documents(query, docs), as test_rerank_documents calls it:
\* the attribute lookup comes first, and fails.
Call_rerank_documents ==
    /\ rag_pc = "idle"
    /\ rag_call' = "_rerank_documents"
    /\ GetAttr("_rerank_documents") = "AttributeError"
    /\ rag_result' = "AttributeError"
    /\ rag_pc' = "raised"
    /\ UNCHANGED <<rag_query, rag_docs, rag_docs0, rag_answer, rag_conf, rag_steps, rag_prompt, rag_response>>
    /\ UNCHANGED <<dpVars, apiVars>>

\* rag_engine._calculate_confidence(docs, answer)
Call_calculate_confidence ==
    /\ rag_pc = "idle"
    /\ \E k \in 0..MaxPunct :
        /\ rag_answer' = [kind |-> "given", punct |-> k]
        /\ rag_conf' \in CalculateConfidence(rag_docs, k)
    /\ rag_call' = "_calculate_confidence"
    /\ rag_pc' = "returned"
    /\ UNCHANGED <<rag_query, rag_docs, rag_docs0, rag_result, rag_steps, rag_prompt, rag_response>>
    /\ UNCHANGED <<dpVars, apiVars>>

\* The exceptions the steps of generate_answer meet: a result without metadata
\* (KeyError), a failing LLM call (APIError), a response without choices
\* (IndexError) or without content (AttributeError). All derive from Exception.
RagExceptions == {"KeyError", "APIError", "IndexError", "AttributeError"}

\* An except clause that names the LLM client's error only
CaughtByExcept_APIErrorOnly(e) == e = "APIError"

\* generate_answer, line 84: except Exception
CaughtByExcept(e) == e \in RagExceptions

\* The terminal test with the condition dropped
NoneSurvive_Never(filtered_docs) == FALSE

\* generate_answer, line 43: not filtered_docs
NoneSurvive(filtered_docs) == filtered_docs = <<>>

\* _expand_query with nothing returned when the call fails
ExpandQuery_EmptyOnFailure(outcome) == IF outcome = "ok" THEN "expanded" ELSE "none"

\* _expand_query: the LLM's text, or the query itself when the call fails
ExpandQuery(outcome) == IF outcome = "ok" THEN "expanded" ELSE "original"

\* The fixed answers of generate_answer, with their . ! ? counts
NoRelevantAnswer == [kind |-> "no_relevant", punct |-> 2]
ErrorAnswer == [kind |-> "error", punct |-> 0]

\* generate_answer's state after a step raised e: the except clause returns the
\* error answer with confidence 0.0; an exception it does not catch escapes
AfterRaise(e) ==
    IF CaughtByExcept(e)
    THEN [pc |-> "returned", answer |-> ErrorAnswer]
    ELSE [pc |-> "raised", answer |-> rag_answer]

\* generate_answer, lines 38-54: filter, the terminal test, the context, and the
\* call of _expand_query up to its await
Call_generate_answer ==
    /\ rag_pc = "idle"
    /\ rag_call' = "generate_answer"
    /\ LET filtered_docs == FilterBySimilarity(rag_docs)
       IN  IF NoneSurvive(filtered_docs)
           THEN /\ rag_pc' = "returned"
                /\ rag_answer' = NoRelevantAnswer
                /\ rag_steps' = <<"filter">>
           ELSE \E context_ok \in BOOLEAN :
                IF context_ok
                THEN /\ rag_pc' = "expanding"
                     /\ rag_answer' = rag_answer
                     /\ rag_steps' = <<"filter", "context", "expand_call">>
                ELSE /\ rag_pc' = AfterRaise("KeyError").pc
                     /\ rag_answer' = AfterRaise("KeyError").answer
                     /\ rag_steps' = <<"filter", "context_failed">>
    /\ rag_conf' = 0
    /\ UNCHANGED <<rag_query, rag_docs, rag_docs0, rag_result, rag_prompt, rag_response>>
    /\ UNCHANGED <<dpVars, apiVars>>

\* The prompt built before the expansion call has come back
AfterExpansion_PromptFirst(outcome) ==
    <<"prompt", IF outcome = "ok" THEN "expand_ok" ELSE "expand_failed", "primary_call">>

\* generate_answer, lines 54-60: _expand_query comes back, then _create_prompt,
\* then the primary completion call
AfterExpansion(outcome) ==
    <<IF outcome = "ok" THEN "expand_ok" ELSE "expand_failed", "prompt", "primary_call">>

\* _expand_query, lines 147-163, and generate_answer, lines 57-60: the expansion
\* call returns or raises; the prompt is built; the primary call is made
ExpandQuery_Returns ==
    /\ rag_pc = "expanding"
    /\ \E outcome \in {"ok", "raises"} :
        /\ rag_prompt' = ExpandQuery(outcome)
        /\ rag_steps' = rag_steps \o AfterExpansion(outcome)
    /\ rag_pc' = "answering"
    /\ UNCHANGED <<rag_query, rag_docs, rag_docs0, rag_call, rag_result, rag_answer, rag_conf, rag_response>>
    /\ UNCHANGED <<dpVars, apiVars>>

\* generate_answer, lines 60-86: the primary call returns or raises; the answer
\* is read from the response; the confidence is computed
Primary_Returns ==
    /\ rag_pc = "answering"
    /\ \E outcome \in {"ok", "raises", "no_choices", "no_content"}, k \in 0..MaxPunct :
        IF outcome = "ok"
        THEN /\ rag_answer' = [kind |-> "llm", punct |-> k]
             /\ rag_conf' \in CalculateConfidence(FilterBySimilarity(rag_docs), k)
             /\ rag_steps' = rag_steps \o <<"primary_ok", "confidence">>
             /\ rag_pc' = "returned"
        ELSE LET e == CASE outcome = "raises" -> "APIError"
                        [] outcome = "no_choices" -> "IndexError"
                        [] outcome = "no_content" -> "AttributeError"
             IN  /\ rag_answer' = AfterRaise(e).answer
                 /\ rag_conf' = 0
                 /\ rag_steps' = rag_steps \o <<IF outcome = "raises" THEN "primary_failed"
                                                ELSE "response_failed">>
                 /\ rag_pc' = AfterRaise(e).pc
    /\ UNCHANGED <<rag_query, rag_docs, rag_docs0, rag_call, rag_result, rag_prompt, rag_response>>
    /\ UNCHANGED <<dpVars, apiVars>>

\* One token of a response text: a word, or a number \d+(\.\d+)? with its
\* value in hundredths (756 is the token 7.56)
Word == [num |-> FALSE, val |-> 0]
Number(v) == [num |-> TRUE, val |-> v]

\* The responses the evaluator's LLM call returns
ScoreTexts ==
    { <<>>, <<Word>>, <<Word, Word>>, <<Number(0)>>, <<Number(800)>>, <<Number(1000)>>,
      <<Number(755)>>, <<Number(8500)>>, <<Word, Number(756), Number(200)>>,
      <<Number(30), Word>>, <<Word, Word, Number(1200)>> }

\* re.search with the last match taken in place of the first
NumericMatch_Last(score_text) ==
    LET hits == {i \in 1..Len(score_text) : score_text[i].num}
    IN  IF hits = {} THEN 0 ELSE CHOOSE i \in hits : \A j \in hits : j <= i

\* re.search(r"\d+(\.\d+)?", score_text): the position of the first numeric
\* token, 0 when there is none
NumericMatch(score_text) ==
    LET hits == {i \in 1..Len(score_text) : score_text[i].num}
    IN  IF hits = {} THEN 0 ELSE CHOOSE i \in hits : \A j \in hits : i <= j

\* min(max(score, 0.0), 1.0), on thousandths
ClampUnit(x) == Min(Max(x, 0), 1000)

\* evaluate_synthesis_quality, lines 240-243: float(match.group()) / 10 if match
\* else 0.0, clamped and rounded to two decimals; the results in hundredths
ParseScore(score_text) ==
    LET match == NumericMatch(score_text)
        score == IF match # 0 THEN score_text[match].val ELSE 0
    IN  RoundSet(ClampUnit(score), 10)

\* evaluate_synthesis_quality, lines 217-238: the prompt and the completion
\* call, up to its await
Call_evaluate_synthesis_quality ==
    /\ rag_pc = "idle"
    /\ rag_call' = "evaluate_synthesis_quality"
    /\ rag_pc' = "evaluating"
    /\ rag_steps' = <<"eval_call">>
    /\ UNCHANGED <<rag_query, rag_docs, rag_docs0, rag_result, rag_answer, rag_conf,
                   rag_prompt, rag_response>>
    /\ UNCHANGED <<dpVars, apiVars>>

\* evaluate_synthesis_quality, lines 230-247: the completion call returns or
\* raises; the score is parsed from the response; the except clause returns 0.0
Evaluation_Returns ==
    /\ rag_pc = "evaluating"
    /\ \E outcome \in {"ok", "raises", "no_choices", "no_content"}, score_text \in ScoreTexts :
        IF outcome = "ok"
        THEN /\ rag_response' = score_text
             /\ rag_conf' \in ParseScore(score_text)
             /\ rag_steps' = rag_steps \o <<"eval_ok">>
             /\ rag_pc' = "returned"
        ELSE LET e == CASE outcome = "raises" -> "APIError"
                        [] outcome = "no_choices" -> "IndexError"
                        [] outcome = "no_content" -> "AttributeError"
             IN  /\ rag_response' = rag_response
                 /\ rag_conf' = 0
                 /\ rag_steps' = rag_steps \o <<"eval_failed">>
                 /\ rag_pc' = IF CaughtByExcept(e) THEN "returned" ELSE "raised"
    /\ UNCHANGED <<rag_query, rag_docs, rag_docs0, rag_call, rag_result, rag_answer, rag_prompt>>
    /\ UNCHANGED <<dpVars, apiVars>>

NextRAG ==
    \/ Call_filter_by_similarity
    \/ Call_rerank_documents
    \/ Call_calculate_confidence
    \/ Call_generate_answer
    \/ ExpandQuery_Returns
    \/ Primary_Returns
    \/ Call_evaluate_synthesis_quality
    \/ Evaluation_Returns

SpecRAG == InitRAG /\ [][NextRAG]_vars

----------------------------------------------------------------------------
(* main.py: the handlers, the vector store and the uploads directory *)

\* The environment the server runs in (os.getenv)
Environ == [CHUNK_SIZE |-> 2, CHUNK_OVERLAP |-> 1]

\* document_processor = DocumentProcessor(): no arguments, the environment decides
ServerChunkSize == PyOr(ArgNone, Environ.CHUNK_SIZE)
ServerChunkOverlap == PyOr(ArgNone, Environ.CHUNK_OVERLAP)

\* The texts uploaded files hold: one of two chunks and one of one chunk
DocTwo == <<Long, Short, Long>>
DocOne == <<Long, Short>>

\* The files a client uploads: a name and the bytes (a text, or bytes the
\* extractor cannot read)
UploadFiles ==
    {[name |-> "a.txt", text |-> DocTwo, corrupt |-> FALSE],
     [name |-> "a.txt", text |-> DocOne, corrupt |-> FALSE],
     [name |-> "b.PDF", text |-> DocOne, corrupt |-> FALSE],
     [name |-> "b.PDF", text |-> DocTwo, corrupt |-> TRUE],
     [name |-> "c.xyz", text |-> DocOne, corrupt |-> FALSE]}

FileLists == SeqsUpTo(UploadFiles, MaxFiles) \ {<<>>}

\* os.path.splitext(filename)[1]
SplitExt(name) ==
    CASE name = "a.txt" -> ".txt"
      [] name = "b.PDF" -> ".PDF"
      [] name = "c.xyz" -> ".xyz"

\* The extension test of upload_documents accepting .txt only
SupportedUpload_TxtOnly(ext) == ext \in {".txt"}

\* upload_documents, line 135: ext in [".pdf", ".docx", ".txt"]
SupportedUpload(ext) == ext \in {".pdf", ".docx", ".txt"}

\* The exception classes the handlers meet; all derive from Exception
ExceptionClasses == {"HTTPException", "ValueError", "RuntimeError"}

\* The status a handler answers with when its try body raises exc: the clause
\* "except Exception" catches it and raises HTTPException(500)
ResponseStatus(exc) == IF exc.type \in ExceptionClasses THEN 500 ELSE exc.status_code

\* The request record after its try body raised exc
Raise(rq, exc) ==
    [rq EXCEPT !.pc = "done",
               !.status = ResponseStatus(exc),
               !.detail = exc.detail,
               !.raised_http = IF exc.type = "HTTPException" THEN exc.status_code ELSE 0,
               !.fd_linked = FALSE]

HTTPException(code, detail) == [type |-> "HTTPException", status_code |-> code, detail |-> detail]
ValueError(detail) == [type |-> "ValueError", status_code |-> 0, detail |-> detail]
RuntimeError(detail) == [type |-> "RuntimeError", status_code |-> 0, detail |-> detail]

\* What is left of a text after its first n characters
RECURSIVE DropChars(_, _)
DropChars(t, n) ==
    IF n = 0 \/ t = <<>> THEN t
    ELSE LET h == Head(t)
         IN  IF h.ws + h.body <= n THEN DropChars(Tail(t), n - (h.ws + h.body))
             ELSE <<[ws |-> Max(h.ws - n, 0),
                     body |-> h.body - Max(n - h.ws, 0),
                     keep |-> h.keep]>> \o Tail(t)

\* buffer.write(bytes) at offset 0 of the file opened with "wb": bytes the file
\* holds beyond the written ones stay
Overwrite(cur, f) ==
    [exists |-> TRUE,
     text |-> IF TotalLen(f.text) >= TotalLen(cur.text) THEN f.text
              ELSE f.text \o DropChars(cur.text, TotalLen(f.text)),
     corrupt |-> f.corrupt]

\* open(file_path, "wb"): the file exists and is empty
Truncated == [exists |-> TRUE, text |-> <<>>, corrupt |-> FALSE]

\* _split_into_chunks: the while loop run to its end
RECURSIVE RunLoop(_, _, _, _)
RunLoop(toks, cs, ov, st) ==
    IF st.stop \/ ~(st.start < Len(toks)) \/ st.iter >= MaxIter THEN st
    ELSE RunLoop(toks, cs, ov, WhileBody(toks, cs, ov, st))

SplitIntoChunks(toks, cs, ov) ==
    LET cks == RunLoop(toks, cs, ov,
                       [start |-> 0, chunks |-> <<>>, windows |-> <<>>,
                        iter |-> 0, stop |-> FALSE]).chunks
    IN  [k \in 1..Len(cks) |->
            [chunk_index |-> cks[k].chunk_index,
             content |-> PySlice(toks, cks[k].start_token, cks[k].end_token)]]

\* document_processor.process_document(file_path) on what uploads/ holds
ProcessDocument(ext, file) ==
    IF Extractor(Lower(ext)) = "unsupported"
    THEN [ok |-> FALSE, error |-> "Unsupported file type", chunks |-> <<>>]
    ELSE IF ~file.exists \/ file.corrupt
    THEN [ok |-> FALSE, error |-> "Error reading file", chunks |-> <<>>]
    ELSE IF IsBlank(file.text)
    THEN [ok |-> TRUE, error |-> "", chunks |-> <<>>]
    ELSE [ok |-> TRUE, error |-> "",
          chunks |-> SplitIntoChunks(Encode(CleanText(file.text)),
                                     ServerChunkSize, ServerChunkOverlap)]

\* add_documents, lines 61-70: the ids and records handed to collection.add
ChunkId(source_name, chunk_index) == <<source_name, chunk_index>>
NewEntries(cks, source_name) ==
    {[id |-> ChunkId(source_name, cks[k].chunk_index),
      source |-> source_name,
      content |-> cks[k].content] : k \in 1..Len(cks)}

\* collection.add: a record whose id the collection already holds is not stored
CollectionAdd(idx, entries) ==
    idx \cup {e \in entries : ~(\E x \in idx : x.id = e.id)}

\* collection.get(where={"source": source_name})
BySource(idx, source_name) == {e \in idx : e.source = source_name}

\* The top of the for loop at position j: return after the last file, reject an
\* unsupported extension, or open uploads/<filename> and await file.read()
LoopTop(rq, j, dk) ==
    IF j > Len(rq.files)
    THEN [rq |-> [rq EXCEPT !.pc = "done", !.status = 200, !.detail = "Processed"],
          dk |-> dk]
    ELSE LET name == rq.files[j].name
         IN  IF ~SupportedUpload(Lower(SplitExt(name)))
             THEN [rq |-> Raise([rq EXCEPT !.i = j],
                                HTTPException(400, "Unsupported file type")),
                   dk |-> dk]
             ELSE [rq |-> [rq EXCEPT !.i = j, !.pc = "reading", !.fd_linked = TRUE],
                   dk |-> [dk EXCEPT ![name] = Truncated]]

\* Requests take the slots in their order of arrival
Arrived(r) == IF r = "r2" THEN req["r1"].pc # "idle" ELSE TRUE

InitAPI ==
    /\ DPIdle
    /\ RagIdle
    /\ ApiIdle

\* startup_event: vector_store.initialize() succeeds, or raises and startup fails
Startup ==
    /\ startup = "not_run"
    /\ \A r \in ReqIds : req[r].pc = "idle"
    /\ \E ok \in BOOLEAN :
        /\ startup' = IF ok THEN "ok" ELSE "failed"
        /\ is_initialized' = ok
    /\ UNCHANGED <<index, disk, req, vs>>
    /\ UNCHANGED <<dpVars, ragVars>>

\* upload_documents, lines 128-140: up to the first await file.read()
Upload_Begin(r) ==
    /\ startup # "failed"
    /\ req[r].pc = "idle"
    /\ Arrived(r)
    /\ \E files \in FileLists :
        LET out == LoopTop([IdleReq EXCEPT !.kind = "upload", !.files = files], 1, disk)
        IN  /\ req' = [req EXCEPT ![r] = out.rq]
            /\ disk' = out.dk
    /\ UNCHANGED <<startup, is_initialized, index, vs>>
    /\ UNCHANGED <<dpVars, ragVars>>

\* upload_documents, lines 140-146 and the next turn of the loop: file.read()
\* has returned; write, process_document, add_documents, os.remove, then the
\* next file up to its await, or the return.
Upload_Resume(r) ==
    /\ req[r].pc = "reading"
    /\ LET rq == req[r]
           j == rq.i
           f == rq.files[j]
           d1 == IF rq.fd_linked THEN [disk EXCEPT ![f.name] = Overwrite(@, f)] ELSE disk
           own == [exists |-> TRUE, text |-> f.text, corrupt |-> f.corrupt]
           rq1 == [rq EXCEPT !.wrote = @ \cup {j}, !.fd_linked = FALSE,
                             !.read_foreign = IF d1[f.name] = own THEN @ ELSE @ \cup {j}]
           pd == ProcessDocument(SplitExt(f.name), d1[f.name])
           rq2 == [rq1 EXCEPT !.chunked = @ \cup {j}]
       IN  IF ~pd.ok
           THEN /\ req' = [req EXCEPT ![r] = Raise(rq1, ValueError(pd.error))]
                /\ disk' = d1
                /\ index' = index
           ELSE IF ~is_initialized
           THEN /\ req' = [req EXCEPT ![r] = Raise(rq2, RuntimeError("Vector store not initialized"))]
                /\ disk' = d1
                /\ index' = index
           ELSE \E accepted \in (IF pd.chunks = <<>> THEN BOOLEAN ELSE {TRUE}) :
                IF ~accepted
                THEN /\ req' = [req EXCEPT ![r] = Raise(rq2, ValueError("Expected IDs to be a non-empty list"))]
                     /\ disk' = d1
                     /\ index' = index
                ELSE LET rq3 == [rq2 EXCEPT !.added = @ \cup {j},
                                            !.processed_files = Append(@, f.name),
                                            !.total_chunks = @ + Len(pd.chunks),
                                            !.removed = @ \cup {j}]
                         d2 == [d1 EXCEPT ![f.name] = Absent]
                         out == LoopTop(rq3, j + 1, d2)
                     IN  /\ index' = CollectionAdd(index, NewEntries(pd.chunks, f.name))
                         /\ disk' = out.dk
                         /\ req' = [q \in ReqIds |->
                                      IF q = r THEN out.rq
                                      ELSE IF req[q].pc = "reading"
                                              /\ req[q].files[req[q].i].name = f.name
                                           THEN [req[q] EXCEPT !.fd_linked = FALSE]
                                           ELSE req[q]]
    /\ UNCHANGED <<startup, is_initialized, vs>>
    /\ UNCHANGED <<dpVars, ragVars>>

\* The queries a client sends
QueryTexts == {<<>>, <<WS>>, <<Short>>}

\* The cosine distances collection.query returns for its hits, nearest first, in
\* hundredths; a cosine distance lies in [0, 2]
HitDistances == {<<70>>, <<80>>, <<150>>, <<70, 70>>, <<70, 80>>, <<80, 80>>, <<70, 150>>}

\* search, line 117: 1 - distance
Score(distance) == 100 - distance

\* collection.query: n hits, nearest first, of those the collection holds
QueryHits(idx, n) ==
    LET k == Min(n, Cardinality(idx))
    IN  IF k = 0 THEN {<<>>}
        ELSE IF k = 1
        THEN {<<[source |-> e.source, distance |-> d[1]]>> :
                e \in idx, d \in {x \in HitDistances : Len(x) = 1}}
        ELSE {<<[source |-> p[1].source, distance |-> d[1]],
                [source |-> p[2].source, distance |-> d[2]]>> :
                p \in {x \in idx \X idx : x[1] # x[2]},
                d \in {x \in HitDistances : Len(x) = 2}}

\* search, lines 111-118: one result per hit, in the order of the hits
FormatResults(hits) ==
    [i \in 1..Len(hits) |-> [source |-> hits[i].source, score |-> Score(hits[i].distance)]]

\* search on an initialized store: the lists it can return
SearchResults(idx, n) == {FormatResults(hits) : hits \in QueryHits(idx, n)}

\* query_documents: the whole handler. The index is read once, by search; the
\* calls to the LLM change no state of the server.
Query(r) ==
    /\ startup # "failed"
    /\ req[r].pc = "idle"
    /\ Arrived(r)
    /\ \E q \in QueryTexts, n \in {1, DefaultMaxResults} :
        LET rq == [IdleReq EXCEPT !.kind = "query"]
        IN  IF ~is_initialized
            THEN req' = [req EXCEPT ![r] = Raise(rq, HTTPException(503, "Vector store not initialized"))]
            ELSE IF IsBlank(q)
            THEN req' = [req EXCEPT ![r] = Raise(rq, HTTPException(400, "Query cannot be empty"))]
            ELSE \E relevant_docs \in SearchResults(index, n), llm_ok \in BOOLEAN :
                 IF relevant_docs = <<>>
                 THEN req' = [req EXCEPT ![r] =
                                [rq EXCEPT !.pc = "done", !.status = 200,
                                           !.answer = "No relevant documents found."]]
                 ELSE LET filtered_docs == FilterBySimilarity(relevant_docs)
                      IN  req' = [req EXCEPT ![r] =
                                [rq EXCEPT !.pc = "done", !.status = 200,
                                           !.sources = relevant_docs,
                                           !.answer = IF filtered_docs = <<>>
                                                      THEN "No relevant documents found. Please rephrase"
                                                      ELSE IF llm_ok THEN "answer"
                                                      ELSE "Error generating answer",
                                           !.llm_calls = (IF filtered_docs = <<>> THEN 0 ELSE 2) + 1]]
    /\ UNCHANGED <<startup, is_initialized, index, disk, vs>>
    /\ UNCHANGED <<dpVars, ragVars>>

\* delete_document: the whole handler, vector_store.delete_document included
Delete(r) ==
    /\ startup # "failed"
    /\ req[r].pc = "idle"
    /\ Arrived(r)
    /\ \E document_name \in FileNames :
        LET rq == [IdleReq EXCEPT !.kind = "delete"]
            found == BySource(index, document_name)
        IN  IF ~is_initialized
            THEN /\ req' = [req EXCEPT ![r] = Raise(rq, RuntimeError("Vector store not initialized"))]
                 /\ index' = index
            ELSE IF found = {}
            THEN /\ req' = [req EXCEPT ![r] = Raise(rq, HTTPException(404, "Document not found"))]
                 /\ index' = index
            ELSE /\ req' = [req EXCEPT ![r] = [rq EXCEPT !.pc = "done", !.status = 200,
                                                         !.detail = "deleted successfully"]]
                 /\ index' = index \ found
    /\ UNCHANGED <<startup, is_initialized, disk, vs>>
    /\ UNCHANGED <<dpVars, ragVars>>

NextAPI ==
    \/ Startup
    \/ \E r \in ReqIds : Upload_Begin(r)
    \/ \E r \in ReqIds : Upload_Resume(r)
    \/ \E r \in ReqIds : Query(r)
    \/ \E r \in ReqIds : Delete(r)

SpecAPI == InitAPI /\ [][NextAPI]_vars

----------------------------------------------------------------------------
(* VectorStore, called directly: every method runs to its end without
   yielding, so a call is one step *)

MaxCalls == 5         \* direct calls on one VectorStore

\* The arguments of the calls
VSSources == {"a.txt", "b.PDF"}

\* A metadata value: its Python type and its text in parts (a list's parts are
\* the str() of its elements)
StrVal(t) == [type |-> "str", parts |-> <<t>>]
IntVal(t) == [type |-> "int", parts |-> <<t>>]
BoolVal(t) == [type |-> "bool", parts |-> <<t>>]
ListVal(items) == [type |-> "list", parts |-> items]

\* The records _extract_metadata returns: the full one, with the lists of
\* _extract_content_metadata, and the minimal one
MetaFull ==
    [filename |-> StrVal("a.txt"), file_size |-> IntVal("120"), language |-> StrVal("en"),
     topics |-> ListVal(<<"Alpha", "Beta">>), dates |-> ListVal(<<>>),
     emails |-> ListVal(<<"x@y.org">>), has_numbers |-> BoolVal("True")]
MetaMinimal ==
    [filename |-> StrVal("a.txt"), processed_at |-> StrVal("2024-01-01T00:00:00"),
     error |-> StrVal("stat failed")]

VSChunkLists ==
    { <<>>,
      <<[chunk_index |-> 0, content |-> "v1", metadata |-> MetaFull]>>,
      <<[chunk_index |-> 0, content |-> "v2", metadata |-> MetaMinimal]>>,
      <<[chunk_index |-> 0, content |-> "v1", metadata |-> MetaFull],
        [chunk_index |-> 1, content |-> "v1", metadata |-> MetaFull]>> }

\* {**a, **b}
Merge(a, b) ==
    [k \in DOMAIN a \cup DOMAIN b |-> IF k \in DOMAIN b THEN b[k] ELSE a[k]]

\* ", ".join(map(str, value))
RECURSIVE Join(_)
Join(items) ==
    IF Len(items) <= 1 THEN items
    ELSE <<Head(items), ", ">> \o Join(Tail(items))

\* The test on the value being a list replaced by a test on its truth
IsList_NonEmpty(value) == value.type = "list" /\ value.parts # <<>>

\* isinstance(value, list)
IsList(value) == value.type = "list"

\* add_documents, lines 73-76: every list value of a metadata record is joined
Normalize(meta) ==
    [k \in DOMAIN meta |->
        IF IsList(meta[k]) THEN [type |-> "str", parts |-> Join(meta[k].parts)]
        ELSE meta[k]]

\* add_documents, lines 61-76: the metadatas handed to collection.add
Metadatas(cks, source_name) ==
    [k \in 1..Len(cks) |->
        Normalize(Merge(cks[k].metadata,
                        [source |-> StrVal(source_name),
                         chunk_id |-> [type |-> "str",
                                       parts |-> <<source_name, "_",
                                                   ToString(cks[k].chunk_index)>>]]))]

\* A guard that lets every call through
NotInitialized_Never(initialized) == FALSE

\* if not self.is_initialized: raise RuntimeError("Vector store not initialized")
NotInitialized(initialized) == ~initialized

\* collection.get(where=...) that matches every record
Matching_All(idx, source_name) == idx

\* delete_document, lines 179-182: the records the where clause matches
Matching(idx, source_name) == BySource(idx, source_name)

\* list_documents, lines 161-167: the distinct source values
SourcesOf(idx) == {e.source : e \in idx}

\* The record of a call as it starts
Begin(call, source_name) ==
    [NoCall EXCEPT !.call = call, !.source = source_name, !.index0 = index,
                   !.init0 = is_initialized, !.n = vs.n + 1]

\* initialize: the directory, the client, the collection and the embedding model
\* in turn; is_initialized is set by the last statement; a failure is re-raised
Call_initialize ==
    /\ vs.n < MaxCalls
    /\ \E failed_at \in {"none", "makedirs", "PersistentClient",
                         "get_or_create_collection", "SentenceTransformer"} :
        /\ is_initialized' = IF failed_at = "none" THEN TRUE ELSE is_initialized
        /\ vs' = [Begin("initialize", "") EXCEPT
                    !.exc = IF failed_at = "none" THEN "" ELSE "Exception",
                    !.ops = IF failed_at \in {"none", "SentenceTransformer"}
                            THEN <<"get_or_create_collection">> ELSE <<>>]
    /\ UNCHANGED <<startup, index, disk, req>>
    /\ UNCHANGED <<dpVars, ragVars>>

\* add_documents(chunks, source_name)
Call_add_documents ==
    /\ vs.n < MaxCalls
    /\ \E cks \in VSChunkLists, source_name \in VSSources, empty_ok \in BOOLEAN :
        LET b == [Begin("add_documents", source_name) EXCEPT !.chunks = cks]
        IN  IF NotInitialized(is_initialized)
            THEN /\ vs' = [b EXCEPT !.exc = "RuntimeError"]
                 /\ index' = index
            ELSE IF cks = <<>> /\ ~empty_ok
            THEN /\ vs' = [b EXCEPT !.exc = "ValueError", !.ops = <<"add">>,
                                    !.metadatas = Metadatas(cks, source_name)]
                 /\ index' = index
            ELSE /\ vs' = [b EXCEPT !.ops = <<"add">>,
                                    !.metadatas = Metadatas(cks, source_name)]
                 /\ index' = CollectionAdd(index, NewEntries(cks, source_name))
    /\ UNCHANGED <<startup, is_initialized, disk, req>>
    /\ UNCHANGED <<dpVars, ragVars>>

\* The keys a filters argument may hold; author is one search does not know
FilterKeys == {"file_type", "language", "source", "topics", "date_from", "date_to", "author"}

\* The filters arguments: None, or a mapping with some of the keys
FilterKeySets ==
    { {}, {"author"}, {"file_type"}, {"language", "source"}, {"topics"}, {"date_from"},
      {"date_to"}, {"date_from", "date_to"}, {"topics", "date_to", "author"},
      {"file_type", "date_from", "date_to", "author"}, FilterKeys }
FilterArgs == {NoFilters} \cup {[given |-> TRUE, keys |-> ks] : ks \in FilterKeySets}

\* A condition of the predicate: its operator and the filter key its operand is
\* taken from
Cond(op, key) == [op |-> op, from |-> key]

\* The date range with date_to replacing date_from
DateFilter_LastWins(keys) ==
    IF "date_to" \in keys THEN {Cond("$lte", "date_to")}
    ELSE {Cond("$gte", "date_from") : k \in keys \cap {"date_from"}}

\* _build_where_clause, lines 135-139: date_filter
DateFilter(keys) ==
    {Cond("$gte", "date_from") : k \in keys \cap {"date_from"}}
        \cup {Cond("$lte", "date_to") : k \in keys \cap {"date_to"}}

\* _build_where_clause: the mapping from metadata field to its conditions
BuildWhereClause(keys) ==
    LET fields == (keys \cap {"file_type", "language", "topics", "source"})
                     \cup (IF keys \cap {"date_from", "date_to"} # {} THEN {"created_at"} ELSE {})
    IN  [f \in fields |->
            CASE f = "created_at" -> DateFilter(keys)
              [] f = "topics" -> {Cond("$in", "topics")}
              [] OTHER -> {Cond("$eq", f)}]

\* search, lines 98-102: the predicate handed to collection.query
WhereArgument(filters) ==
    LET where_clause == IF filters.given /\ filters.keys # {}
                        THEN [kind |-> "dict", clause |-> BuildWhereClause(filters.keys)]
                        ELSE [kind |-> "None", clause |-> <<>>]
    IN  IF where_clause.kind = "None" \/ DOMAIN where_clause.clause = {}
        THEN [kind |-> "None", clause |-> <<>>]
        ELSE where_clause

\* search(query, max_results, filters)
Call_search ==
    /\ vs.n < MaxCalls
    /\ \E max_results \in {1, 2}, filters \in FilterArgs :
        LET b == [Begin("search", "") EXCEPT !.filters = filters]
        IN  IF NotInitialized(is_initialized)
            THEN vs' = [b EXCEPT !.exc = "RuntimeError"]
            ELSE \E hits \in QueryHits(index, max_results) :
                 vs' = [b EXCEPT !.ops = <<"query">>,
                                 !.where = WhereArgument(filters),
                                 !.hits = hits,
                                 !.results = FormatResults(hits),
                                 !.ret_count = Len(hits),
                                 !.ret_list = {hits[i].source : i \in 1..Len(hits)}]
    /\ UNCHANGED <<startup, is_initialized, index, disk, req>>
    /\ UNCHANGED <<dpVars, ragVars>>

\* list_documents()
Call_list_documents ==
    /\ vs.n < MaxCalls
    /\ LET b == Begin("list_documents", "")
       IN  IF NotInitialized(is_initialized)
           THEN vs' = [b EXCEPT !.exc = "RuntimeError"]
           ELSE vs' = [b EXCEPT !.ops = <<"get">>, !.ret_list = SourcesOf(index)]
    /\ UNCHANGED <<startup, is_initialized, index, disk, req>>
    /\ UNCHANGED <<dpVars, ragVars>>

\* delete_document(source_name)
Call_delete_document ==
    /\ vs.n < MaxCalls
    /\ \E source_name \in VSSources :
        LET b == Begin("delete_document", source_name)
            results == Matching(index, source_name)
        IN  IF NotInitialized(is_initialized)
            THEN /\ vs' = [b EXCEPT !.exc = "RuntimeError"]
                 /\ index' = index
            ELSE IF results = {}
            THEN /\ vs' = [b EXCEPT !.ops = <<"get">>, !.ret_bool = FALSE]
                 /\ index' = index
            ELSE /\ vs' = [b EXCEPT !.ops = <<"get", "delete">>, !.ret_bool = TRUE]
                 /\ index' = index \ results
    /\ UNCHANGED <<startup, is_initialized, disk, req>>
    /\ UNCHANGED <<dpVars, ragVars>>

\* get_collection_stats(): the count, then list_documents
Call_get_collection_stats ==
    /\ vs.n < MaxCalls
    /\ LET b == Begin("get_collection_stats", "")
       IN  IF NotInitialized(is_initialized)
           THEN vs' = [b EXCEPT !.exc = "RuntimeError"]
           ELSE vs' = [b EXCEPT !.ops = <<"count", "get">>,
                                !.ret_count = Cardinality(index),
                                !.ret_list = SourcesOf(index)]
    /\ UNCHANGED <<startup, is_initialized, index, disk, req>>
    /\ UNCHANGED <<dpVars, ragVars>>

InitVS ==
    /\ DPIdle
    /\ RagIdle
    /\ ApiIdle

NextVS ==
    \/ Call_initialize
    \/ Call_add_documents
    \/ Call_search
    \/ Call_list_documents
    \/ Call_delete_document
    \/ Call_get_collection_stats

SpecVS == InitVS /\ [][NextVS]_vars

----------------------------------------------------------------------------
(* Claims about DocumentProcessor *)

DPEnded == dp_pc \in {"returned", "raised"}
SaneConfig == chunk_overlap < chunk_size

\* C1: every chunk emitted by _split_into_chunks has end_token - start_token <=
\* chunk_size and 0 <= start_token < end_token <= total token count, for every
\* text and every configured chunk_size / chunk_overlap.
C1_ChunkBounds ==
    \A i \in 1..Len(chunks) :
        /\ chunks[i].end_token - chunks[i].start_token <= chunk_size
        /\ 0 <= chunks[i].start_token
        /\ chunks[i].start_token < chunks[i].end_token
        /\ chunks[i].end_token <= Len(tokens)

\* C2 as stated: chunks with chunk_index i and i+1 satisfy start_token(i+1) =
\* end_token(i) - overlap, also when a window between them was discarded. The
\* pair that ends in the document's last chunk (the tail) is left out.
C2_OverlapByChunkIndex ==
    dp_pc = "returned" =>
        \A i \in 1..(Len(chunks) - 2) :
            chunks[i + 1].start_token = chunks[i].end_token - chunk_overlap

\* C2 as amended: chunk_index counts the emitted chunks from 0, and two chunks
\* that follow each other and come from consecutive windows of the loop (no
\* window between them was discarded) satisfy start_token(i+1) = end_token(i) -
\* overlap.
C2_OverlapAdjacentWindows ==
    \A i \in 1..Len(chunks) :
        /\ chunks[i].chunk_index = i - 1
        /\ (i < Len(chunks) /\ chunks[i + 1].window = chunks[i].window + 1)
              => chunks[i + 1].start_token = chunks[i].end_token - chunk_overlap

C2_Witness ==
    /\ dp_pc = "returned"
    /\ SaneConfig
    /\ Len(chunks) >= 3
    /\ chunks[2].window = chunks[1].window + 2
    /\ chunks[3].window = chunks[2].window + 1

\* C3: chunk coverage. With overlap < chunk_size and more than chunk_size tokens,
\* every token index lies in a window the loop visited (emitted, or dropped by
\* the 50-character rule) and the last window visited ends at the token count; a
\* document of at most chunk_size tokens yields at most one chunk.
Covered(k) == \E w \in 1..Len(windows) : windows[w].start <= k /\ k < windows[w].end

C3_ChunkCoverage ==
    (dp_pc = "returned" /\ "split_into_chunks" \in dp_steps) =>
        /\ (Len(tokens) > chunk_size /\ SaneConfig) =>
              /\ \A k \in 0..(Len(tokens) - 1) : Covered(k)
              /\ windows[Len(windows)].end = Len(tokens)
        /\ Len(tokens) <= chunk_size => Len(chunks) <= 1

C3_Witness ==
    /\ dp_pc = "returned"
    /\ SaneConfig
    /\ Len(tokens) > chunk_size
    /\ Len(windows) >= 3
    /\ \E w \in 1..Len(windows) : ~windows[w].emitted
    /\ \E w \in 1..Len(windows) : windows[w].emitted

\* C4: the chunking loop terminates for every token sequence and every
\* configuration, overlap >= chunk_size included. What an iteration does is a
\* function of start alone (tokens and configuration are fixed), so a loop that
\* terminates never begins two iterations at the same start.
C4_LoopTerminates ==
    \A i, j \in 1..Len(windows) : i < j => windows[j].start # windows[i].start

\* C5: no emitted chunk has a trimmed content of 50 characters or fewer, and a
\* document whose text is empty or only whitespace yields zero chunks and no
\* error (it never reaches the chunker).
C5_NoShortChunk ==
    /\ \A i \in 1..Len(chunks) : chunks[i].content_len > 50
    /\ (IsBlank(file_text) /\ dp_pc \notin {"start", "extracted", "raised"})
          => (dp_pc = "returned" /\ dp_result = "chunks" /\ chunks = <<>> /\ windows = <<>>)
    /\ (IsBlank(file_text) /\ dp_pc = "raised") => "extract_text" \notin dp_steps
                                                    \/ dp_result = "ValueError: Error reading file"

C5_Witness ==
    /\ dp_pc = "returned"
    /\ Len(chunks) >= 1
    /\ \E w \in 1..Len(windows) :
          /\ ~windows[w].emitted
          /\ StrippedLen(PySlice(tokens, windows[w].start, windows[w].end)) = 50

\* C6: process_document on an extension other than .pdf, .docx, .txt raises
\* ValueError 'Unsupported file type' before any text extraction, metadata
\* extraction or chunking.
C6_UnsupportedRaisesFirst ==
    (Lower(file_ext) \notin {".pdf", ".docx", ".txt"} /\ dp_pc # "start") =>
        /\ dp_pc = "raised"
        /\ dp_result = "ValueError: Unsupported file type"
        /\ dp_steps = {}
        /\ metadata = NoMetadata
        /\ tokens = <<>> /\ chunks = <<>> /\ windows = <<>>

C6_Witness == dp_pc = "raised" /\ file_ext = ".xyz" /\ file_text # <<>>

----------------------------------------------------------------------------
(* Claims about RAGEngine *)

RECURSIVE IsSubsequence(_, _)
IsSubsequence(a, b) ==
    IF a = <<>> THEN TRUE
    ELSE IF b = <<>> THEN FALSE
    ELSE \/ (Head(a) = Head(b) /\ IsSubsequence(Tail(a), Tail(b)))
         \/ IsSubsequence(a, Tail(b))

ScoresOf(docs) == [i \in 1..Len(docs) |-> docs[i].score]

\* C9: _filter_by_similarity returns a subsequence of its input (order kept, the
\* input list not modified) holding exactly the results with score >=
\* min_similarity_threshold; threshold 0.3 over [0.9, 0.5, 0.2] yields [0.9, 0.5].
C9_FilterIsSubsequence ==
    (rag_pc = "returned" /\ rag_call = "_filter_by_similarity") =>
        /\ IsSubsequence(rag_result, rag_docs0)
        /\ \A i \in 1..Len(rag_result) : rag_result[i].score >= 30
        /\ Len(rag_result) = Cardinality({i \in 1..Len(rag_docs0) : rag_docs0[i].score >= 30})
        /\ rag_docs = rag_docs0
        /\ ScoresOf(rag_docs0) = <<90, 50, 20>> => ScoresOf(rag_result) = <<90, 50>>

C9_Witness ==
    /\ rag_pc = "returned"
    /\ rag_call = "_filter_by_similarity"
    /\ ScoresOf(rag_docs0) = <<20, 30, 90>>
    /\ ScoresOf(rag_result) = <<30, 90>>

\* The number of query terms that occur in a content
KeywordOverlap(query, content) == Cardinality(query \cap content)

\* C10: the engine provides _rerank_documents(query, results): it returns the
\* results, each annotated with keyword_overlap, sorted by it in descending
\* order, every score unchanged.
C10_RerankProvided ==
    rag_call = "_rerank_documents" =>
        /\ rag_pc = "returned"
        /\ Len(rag_result) = Len(rag_docs0)
        /\ \A i \in 1..Len(rag_result) :
              /\ rag_result[i].keyword_overlap = KeywordOverlap(rag_query, rag_result[i].content)
              /\ \E j \in 1..Len(rag_docs0) :
                    /\ rag_docs0[j].content = rag_result[i].content
                    /\ rag_docs0[j].score = rag_result[i].score
        /\ \A i \in 1..(Len(rag_result) - 1) :
              rag_result[i].keyword_overlap >= rag_result[i + 1].keyword_overlap

----------------------------------------------------------------------------
(* Claims about the handlers of main.py (SpecAPI) *)

ReqDone(r) == req[r].pc = "done"

\* C7: an HTTP error status raised inside a handler reaches the client with that
\* status: a finished request whose try body raised HTTPException(400), (503)
\* or (404) is answered with 400, 503 or 404.
C7_RaisedStatusReachesClient ==
    \A r \in ReqIds :
        (ReqDone(r) /\ req[r].raised_http # 0) => req[r].status = req[r].raised_http

\* An /upload request that ended at the extension test of line 135
RejectedUpload(r) ==
    /\ req[r].kind = "upload"
    /\ ReqDone(r)
    /\ req[r].raised_http = 400

\* C8, as stated: when an /upload request is rejected for an unsupported
\* extension, no file of the request has been written, chunked or added to the
\* index, whatever the position of the rejected file.
C8_NoPartialProcessing ==
    \A r \in ReqIds :
        RejectedUpload(r) =>
            /\ req[r].wrote = {}
            /\ req[r].chunked = {}
            /\ req[r].added = {}

\* The position of the first file whose lower-cased extension is not .pdf, .docx
\* or .txt (0: none)
FirstUnsupported(files) ==
    LET bad == {j \in 1..Len(files) :
                  Lower(SplitExt(files[j].name)) \notin {".pdf", ".docx", ".txt"}}
    IN  IF bad = {} THEN 0 ELSE CHOOSE j \in bad : \A k \in bad : j <= k

\* C8, amended: a rejected /upload request stopped at its first unsupported
\* file, at position k. That file and the files after it have not been written,
\* chunked or added; every file before it has been written, chunked, added to
\* the index and removed from uploads/, and is listed in processed_files.
C8_RejectionStopsAtFirstUnsupported ==
    \A r \in ReqIds :
        RejectedUpload(r) =>
            LET k == FirstUnsupported(req[r].files)
            IN  /\ k >= 1
                /\ req[r].i = k
                /\ req[r].wrote = 1..(k - 1)
                /\ req[r].chunked = 1..(k - 1)
                /\ req[r].added = 1..(k - 1)
                /\ req[r].removed = 1..(k - 1)
                /\ req[r].processed_files = [j \in 1..(k - 1) |-> req[r].files[j].name]

\* A request rejected at its second file whose first file's chunks are in the index
C8_Witness ==
    \E r \in ReqIds :
        /\ RejectedUpload(r)
        /\ req[r].i = 2
        /\ req[r].added = {1}
        /\ BySource(index, req[r].files[1].name) # {}
        /\ \A q \in ReqIds \ {r} : req[q].pc = "idle"

----------------------------------------------------------------------------
(* Claims about the confidence estimator (SpecRAG) *)

ConfidenceReturned == rag_call = "_calculate_confidence" /\ rag_pc = "returned"

\* C11: _calculate_confidence returns a value in [0,1] for every list of results
\* and every answer text, and exactly 0.0 for an empty list.
C11_ConfidenceBounds ==
    ConfidenceReturned =>
        /\ 0 <= rag_conf
        /\ rag_conf <= 100
        /\ rag_docs0 = <<>> => rag_conf = 0

\* The lists of the same length whose score is strictly lower at every position
LowerLists(docs) ==
    {[i \in 1..Len(docs) |-> [content |-> docs[i].content, score |-> sc[i]]] :
        sc \in {f \in [1..Len(docs) -> Scores] :
                  \A i \in 1..Len(docs) : f[i] < docs[i].score}}

\* C12: for two result lists of equal length and the same answer text, when every
\* score of the first is strictly higher than the score of the second at the
\* same position, the confidence of the first is at least that of the second.
C12_ConfidenceOrdering ==
    ConfidenceReturned =>
        \A lower \in LowerLists(rag_docs0) :
            \A c \in CalculateConfidence(lower, rag_answer.punct) : c <= rag_conf

\* A call on scores (0.9, 0.5) whose confidence is strictly above that of (0.5, 0.2)
C12_Witness ==
    /\ ConfidenceReturned
    /\ ScoresOf(rag_docs0) = <<90, 50>>
    /\ \E lower \in LowerLists(rag_docs0) :
        /\ ScoresOf(lower) = <<50, 20>>
        /\ \A c \in CalculateConfidence(lower, rag_answer.punct) : c < rag_conf

----------------------------------------------------------------------------
(* Claims about generate_answer (SpecRAG) *)

InGenerateAnswer == rag_call = "generate_answer"

\* The calls of client.chat.completions.create a run has made
LLMCalls(steps) ==
    Cardinality({i \in 1..Len(steps) : steps[i] \in {"expand_call", "primary_call"}})

C14_FailureIsAnAnswer ==
    InGenerateAnswer =>
        /\ rag_pc # "raised"
        /\ (\E i \in 1..Len(rag_steps) :
               rag_steps[i] \in {"primary_failed", "response_failed", "context_failed"}) =>
              /\ rag_pc = "returned"
              /\ rag_answer.kind = "error"
              /\ rag_conf = 0

\* A call whose primary LLM call raised after a successful expansion
C14_Witness ==
    /\ InGenerateAnswer
    /\ rag_steps = <<"filter", "context", "expand_call", "expand_ok", "prompt",
                     "primary_call", "primary_failed">>
    /\ rag_answer.kind = "error"

\* C15: when the expansion call fails, _expand_query returns the original query,
\* and generate_answer goes on to build the prompt with it and to make the
\* primary call.
C15_ExpansionIsBestEffort ==
    InGenerateAnswer =>
        \A i \in 1..Len(rag_steps) :
            rag_steps[i] = "expand_failed" =>
                /\ rag_prompt = "original"
                /\ Len(rag_steps) >= i + 2
                /\ rag_steps[i + 1] = "prompt"
                /\ rag_steps[i + 2] = "primary_call"

\* A call that answered from the LLM after its expansion call had failed
C15_Witness ==
    /\ InGenerateAnswer
    /\ rag_pc = "returned"
    /\ rag_answer.kind = "llm"
    /\ \E i \in 1..Len(rag_steps) : rag_steps[i] = "expand_failed"

\* C16: a generate_answer call in which a result passes the threshold and the LLM
\* succeeds invokes the completion API exactly once.
C16_OneCompletionCall ==
    (InGenerateAnswer /\ rag_pc = "returned" /\ rag_answer.kind = "llm") =>
        LLMCalls(rag_steps) = 1

----------------------------------------------------------------------------
(* Claims about evaluate_synthesis_quality (SpecRAG) *)

InEvaluation == rag_call = "evaluate_synthesis_quality"

EvaluationFailed == \E i \in 1..Len(rag_steps) : rag_steps[i] = "eval_failed"

\* The value of the first numeric token of the response, in hundredths
FirstNumber(score_text) ==
    LET hits == {i \in 1..Len(score_text) : score_text[i].num}
    IN  score_text[CHOOSE i \in hits : \A j \in hits : i <= j].val

HasNumber(score_text) == \E i \in 1..Len(score_text) : score_text[i].num

\* C17 as stated: evaluate_synthesis_quality returns a value in [0,1] and never
\* raises; the value is the first numeric token of the response divided by 10
\* and clamped to [0,1], and 0.0 when there is no numeric token or the call fails.
C17_TenthOfFirstNumber ==
    InEvaluation =>
        /\ rag_pc # "raised"
        /\ 0 <= rag_conf /\ rag_conf <= 100
        /\ (rag_pc = "returned" /\ (EvaluationFailed \/ ~HasNumber(rag_response))) =>
              rag_conf = 0
        /\ (rag_pc = "returned" /\ ~EvaluationFailed /\ HasNumber(rag_response)) =>
              10 * rag_conf = Min(FirstNumber(rag_response), 1000)

\* C17 (amended): evaluate_synthesis_quality returns a value in [0,1] and never
\* raises; the value is the first numeric token of the response divided by 10,
\* clamped to [0,1] and rounded to two decimals, and 0.0 when there is no
\* numeric token or the call fails.
C17_RoundedTenthOfFirstNumber ==
    InEvaluation =>
        /\ rag_pc # "raised"
        /\ 0 <= rag_conf /\ rag_conf <= 100
        /\ (rag_pc = "returned" /\ (EvaluationFailed \/ ~HasNumber(rag_response))) =>
              rag_conf = 0
        /\ (rag_pc = "returned" /\ ~EvaluationFailed /\ HasNumber(rag_response)) =>
              LET tenth == Min(FirstNumber(rag_response), 1000)
              IN  /\ 10 * rag_conf - tenth <= 5
                  /\ tenth - 10 * rag_conf <= 5

\* A response "... 7.56 2.0" evaluated to 0.76
C17_Witness ==
    /\ InEvaluation
    /\ rag_pc = "returned"
    /\ rag_response = <<Word, Number(756), Number(200)>>
    /\ rag_conf = 76

----------------------------------------------------------------------------
(* Claims about VectorStore (SpecVS) *)

GatedMethods ==
    {"add_documents", "search", "list_documents", "delete_document", "get_collection_stats"}

C19_CascadingDelete ==
    (vs.call = "delete_document" /\ vs.init0) =>
        /\ vs.exc = ""
        /\ index = {e \in vs.index0 : e.source # vs.source}
        /\ vs.ret_bool = (\E e \in vs.index0 : e.source = vs.source)
        /\ vs.ret_bool => vs.source \notin SourcesOf(index)
        /\ ~vs.ret_bool => (index = vs.index0 /\ vs.ops = <<"get">>)

\* A delete of a.txt that removed two chunks and kept the chunk of b.PDF
C19_Witness ==
    /\ vs.call = "delete_document"
    /\ vs.source = "a.txt"
    /\ vs.ret_bool
    /\ Cardinality(vs.index0) = 3
    /\ Cardinality(index) = 1
    /\ SourcesOf(index) = {"b.PDF"}

\* C20: after a document was added and another version is added under the same
\* filename, the index holds for that filename exactly the chunks of the latest
\* version, under the ids <filename>_<chunk_index>, and no chunk of the earlier
\* version; adding identical content twice leaves the index as after the first.
C20_ReingestionReplaces ==
    (vs.call = "add_documents" /\ vs.init0 /\ vs.exc = "") =>
        /\ BySource(index, vs.source) = NewEntries(vs.chunks, vs.source)
        /\ \A e \in index : e.source # vs.source => e \in vs.index0
        /\ NewEntries(vs.chunks, vs.source) = BySource(vs.index0, vs.source) =>
              index = vs.index0

FlatScalar(value) == value.type \in {"str", "int", "bool"}

\* C21: every metadata value add_documents hands to the index is a flat scalar:
\* each list-valued field of each chunk of the batch (topics, dates, emails,
\* empty lists included) has been replaced by its elements joined with ', ',
\* and every other field is handed as it was.
C21_MetadataIsFlat ==
    (vs.call = "add_documents" /\ vs.ops = <<"add">>) =>
        /\ Len(vs.metadatas) = Len(vs.chunks)
        /\ \A k \in 1..Len(vs.chunks) :
             LET given == vs.chunks[k].metadata
                 handed == vs.metadatas[k]
             IN  /\ \A key \in DOMAIN handed : FlatScalar(handed[key])
                 /\ DOMAIN given \subseteq DOMAIN handed
                 /\ \A key \in DOMAIN given :
                      IF given[key].type = "list"
                      THEN /\ handed[key].type = "str"
                           /\ handed[key].parts =
                                [i \in 1..(2 * Len(given[key].parts) - 1) |->
                                    IF i % 2 = 1 THEN given[key].parts[(i + 1) \div 2]
                                    ELSE ", "]
                      ELSE handed[key] = given[key]

\* A batch of two chunks whose topics, dates (empty) and emails were joined
C21_Witness ==
    /\ vs.call = "add_documents"
    /\ vs.exc = ""
    /\ Len(vs.chunks) = 2
    /\ vs.chunks[2].metadata.dates = ListVal(<<>>)
    /\ vs.metadatas[2].dates = [type |-> "str", parts |-> <<>>]
    /\ vs.metadatas[2].topics = [type |-> "str", parts |-> <<"Alpha", ", ", "Beta">>]

\* C22: every result search returns has score = 1 - distance of the index hit at
\* the same position, in the index's ranking order, and that score lies in
\* [0,1] for every distance the cosine index can return.
C22_ScoreIsUnitSimilarity ==
    (vs.call = "search" /\ vs.exc = "") =>
        /\ Len(vs.results) = Len(vs.hits)
        /\ \A i \in 1..Len(vs.hits) :
             /\ vs.results[i].source = vs.hits[i].source
             /\ vs.results[i].score = 100 - vs.hits[i].distance
             /\ 0 <= vs.results[i].score
             /\ vs.results[i].score <= 100

RecognizedKeys == {"file_type", "language", "source", "topics", "date_from", "date_to"}

\* C23: the predicate search passes to the index holds exactly the recognized
\* filter keys of the request: file_type, language and source as exact match,
\* topics as {$in: list}, date_from / date_to as $gte / $lte merged into one
\* created_at entry; unrecognized keys are ignored; with no recognized key, or
\* with filters empty or absent, the predicate is None and not an empty mapping.
C23_FilterTranslation ==
    (vs.call = "search" /\ vs.exc = "") =>
        LET rec == IF vs.filters.given THEN vs.filters.keys \cap RecognizedKeys ELSE {}
        IN  IF rec = {}
            THEN vs.where = [kind |-> "None", clause |-> <<>>]
            ELSE /\ vs.where.kind = "dict"
                 /\ DOMAIN vs.where.clause =
                      (rec \ {"date_from", "date_to"})
                         \cup (IF rec \cap {"date_from", "date_to"} # {} THEN {"created_at"} ELSE {})
                 /\ \A k \in rec \cap {"file_type", "language", "source"} :
                      vs.where.clause[k] = {[op |-> "$eq", from |-> k]}
                 /\ "topics" \in rec => vs.where.clause["topics"] = {[op |-> "$in", from |-> "topics"]}
                 /\ rec \cap {"date_from", "date_to"} # {} =>
                      /\ ([op |-> "$gte", from |-> "date_from"] \in vs.where.clause["created_at"])
                            <=> "date_from" \in rec
                      /\ ([op |-> "$lte", from |-> "date_to"] \in vs.where.clause["created_at"])
                            <=> "date_to" \in rec
                      /\ Cardinality(vs.where.clause["created_at"])
                            = Cardinality(rec \cap {"date_from", "date_to"})

\* A search with file_type, both dates and an unknown key
C23_Witness ==
    /\ vs.call = "search"
    /\ vs.exc = ""
    /\ vs.filters.keys = {"file_type", "date_from", "date_to", "author"}
    /\ DOMAIN vs.where.clause = {"file_type", "created_at"}
    /\ Cardinality(vs.where.clause["created_at"]) = 2

----------------------------------------------------------------------------
(* Claims about metadata extraction (SpecDPEnv) *)

\* C24: metadata extraction never aborts ingestion: when a step of
\* _extract_metadata fails (file stat, hashing, language or content extraction)
\* process_document still goes on to chunking, and the chunks carry the minimal
\* record with filename, file_path, processed_at and error; hashing alone
\* failing yields file_hash 'unknown' without raising.
C24_MetadataDegradesToMinimal ==
    "extract_metadata" \in dp_steps =>
        /\ dp_pc \in {"chunking", "returned"}
        /\ "split_into_chunks" \in dp_steps
        /\ metadata.failed = {"hash"} =>
              (metadata.kind = "full" /\ metadata.file_hash = "unknown")
        /\ (metadata.failed # {} /\ metadata.failed # {"hash"}) =>
              (metadata.kind = "minimal" /\ metadata.error)

----------------------------------------------------------------------------
(* Claims about the order of generate_answer's steps (SpecRAG) *)

\* The place of a step in the order filter, context, expansion, prompt, primary
\* call, confidence
StepRank(step) ==
    CASE step = "filter" -> 1
      [] step \in {"context", "context_failed"} -> 2
      [] step = "expand_call" -> 3
      [] step \in {"expand_ok", "expand_failed"} -> 4
      [] step = "prompt" -> 5
      [] step = "primary_call" -> 6
      [] step \in {"primary_ok", "primary_failed", "response_failed"} -> 7
      [] step = "confidence" -> 8
      [] OTHER -> 0

LastStep == rag_steps[Len(rag_steps)]

\* C25: within one generate_answer request the steps occur strictly in the
\* order filter, context, query expansion, prompt, primary LLM call, confidence
\* scoring; the expansion has come back, with or without success, before the
\* prompt is built; the primary call has come back before the confidence is
\* computed; each of the two LLM calls is made at most once; a request that has
\* not ended is waiting for one of the two calls, and one that has ended is in
\* exactly one of the outcomes no-docs, error, scored answer.
C25_StrictSequence ==
    InGenerateAnswer =>
        /\ rag_steps # <<>>
        /\ rag_steps[1] = "filter"
        /\ \A i \in 1..(Len(rag_steps) - 1) :
             /\ StepRank(rag_steps[i]) > 0
             /\ StepRank(rag_steps[i]) < StepRank(rag_steps[i + 1])
        /\ \A i \in 1..Len(rag_steps) :
             /\ rag_steps[i] = "prompt" =>
                   (i > 1 /\ rag_steps[i - 1] \in {"expand_ok", "expand_failed"})
             /\ rag_steps[i] = "confidence" => (i > 1 /\ rag_steps[i - 1] = "primary_ok")
             /\ rag_steps[i] = "primary_call" => (i > 1 /\ rag_steps[i - 1] = "prompt")
             /\ rag_steps[i] = "expand_call" => (i > 1 /\ rag_steps[i - 1] = "context")
        /\ Cardinality({i \in 1..Len(rag_steps) : rag_steps[i] = "expand_call"}) <= 1
        /\ Cardinality({i \in 1..Len(rag_steps) : rag_steps[i] = "primary_call"}) <= 1
        /\ IF rag_pc = "returned"
           THEN Cardinality({o \in {"no_docs", "error", "scored"} :
                   CASE o = "no_docs" -> rag_answer.kind = "no_relevant" /\ rag_steps = <<"filter">>
                     [] o = "error" -> /\ rag_answer.kind = "error"
                                       /\ LastStep \in {"context_failed", "primary_failed",
                                                        "response_failed"}
                     [] o = "scored" -> rag_answer.kind = "llm" /\ LastStep = "confidence"}) = 1
           ELSE \/ rag_pc = "expanding" /\ LastStep = "expand_call"
                \/ rag_pc = "answering" /\ LastStep = "primary_call"

\* A request that went through every step and ended with a scored answer
C25_Witness ==
    /\ InGenerateAnswer
    /\ rag_pc = "returned"
    /\ rag_steps = <<"filter", "context", "expand_call", "expand_ok", "prompt",
                     "primary_call", "primary_ok", "confidence">>
    /\ rag_answer.kind = "llm"

----------------------------------------------------------------------------
(* Claims about the confidence formula (SpecRAG) *)

\* The weights [1.0, 0.8, 0.6, 0.4, 0.2], in tenths
PositionalWeights == <<10, 8, 6, 4, 2>>

\* C26: for a non-empty result list _calculate_confidence equals
\* round(min(0.7*W + 0.3*C, 1.0), 2), where W is the weighted average of the
\* scores of the first min(n,5) results in the given order with weights
\* [1.0, 0.8, 0.6, 0.4, 0.2] truncated to that count (results beyond the fifth
\* have no influence) and C = min(k/5, 1.0), k the number of . ! ? in the answer.
\* In hundredths: with num/den the exact value of 0.7*W + 0.3*C, the result is
\* 100 when num/den >= 100 and otherwise an integer nearest to num/den.
C26_ConfidenceFormula ==
    (ConfidenceReturned /\ rag_docs0 # <<>>) =>
        LET m == IF Len(rag_docs0) < 5 THEN Len(rag_docs0) ELSE 5
            k == rag_answer.punct
            C == IF k >= 5 THEN 100 ELSE 20 * k
            sw == SumTo([i \in 1..m |-> rag_docs0[i].score * PositionalWeights[i]], m)
            w == SumTo(PositionalWeights, m)
            num == 7 * sw + 3 * C * w
            den == 10 * w
        IN  IF num >= 100 * den
            THEN rag_conf = 100
            ELSE /\ 2 * (rag_conf * den - num) <= den
                 /\ 2 * (num - rag_conf * den) <= den

\* Six results, the sixth with a high score: W = 21.8 / 3.0, C = 0.4, 0.7*W + 0.3*C = 0.6287
C26_Witness ==
    /\ ConfidenceReturned
    /\ ScoresOf(rag_docs0) = <<90, 90, 50, 50, 30, 90>>
    /\ rag_answer.punct = 2
    /\ rag_conf = 63

----------------------------------------------------------------------------
(* Claims about concurrent requests (SpecAPI) *)

\* C27: concurrent /upload requests do not interfere through shared state: in
\* every interleaving of two upload requests, also of two with the same
\* filename, what a request's process_document reads under uploads/<filename>
\* is the bytes that request uploaded, so that a request reporting success has
\* indexed chunks of its own bytes and no request fails or reads another
\* request's file because of the other's write or removal.
C27_UploadsDoNotInterfere ==
    \A r \in ReqIds : req[r].kind = "upload" => req[r].read_foreign = {}

\* C28: in a /query response the listed sources are exactly the results that
\* grounded the answer: every source has a score at or above the similarity
\* threshold, and a response whose answer is generate_answer's
\* no-relevant-documents terminal lists no sources and was produced without a
\* call to the LLM (no self-evaluation).
C28_SourcesGroundTheAnswer ==
    \A r \in ReqIds :
        (req[r].kind = "query" /\ req[r].pc = "done" /\ req[r].status = 200) =>
            /\ \A i \in 1..Len(req[r].sources) :
                    req[r].sources[i].score >= MinSimilarityThreshold
            /\ req[r].answer = "No relevant documents found. Please rephrase" =>
                    (req[r].sources = <<>> /\ req[r].llm_calls = 0)

----------------------------------------------------------------------------
(* Claims about the constructor of DocumentProcessor (SpecDPEnv) *)

\* C29: a DocumentProcessor constructed with an explicit (positive) chunk_size
\* and an explicit chunk_overlap chunks with exactly those values, for every
\* non-negative overlap, chunk_overlap = 0 included: then chunk i+1 starts at
\* chunk i's end_token. The defaults 1000 / 200 are used only for an argument
\* that was omitted.
C29_ExplicitArgumentsAreUsed ==
    LET cs == ctor_args.chunk_size
        co == ctor_args.chunk_overlap
    IN  /\ (cs.given /\ cs.val > 0) => chunk_size = cs.val
        /\ co.given => chunk_overlap = co.val
        /\ ~cs.given => chunk_size = DefaultChunkSize
        /\ ~co.given => chunk_overlap = DefaultChunkOverlap
        /\ (co.given /\ co.val = 0) =>
               \A i \in 1..(Len(chunks) - 1) :
                   chunks[i + 1].start_token = chunks[i].end_token

----------------------------------------------------------------------------
(* Claims about the files under uploads/ (SpecAPI) *)

\* C30: when an /upload request has finished, whether it succeeded or failed at
\* extraction, chunking or indexing of one of its files, no file it wrote
\* remains under uploads/: whenever no request is in progress, uploads/ holds
\* no file.
C30_NoUploadLeftBehind ==
    (\A r \in ReqIds : req[r].pc \in {"idle", "done"}) =>
        \A name \in DOMAIN disk : ~disk[name].exists

====
